---- MODULE Spec2Model ----
(***************************************************************************)
(* Model of app.py: the text normalizer (clean_text), the completion       *)
(* client (openai_gpt_request), the batch orchestrator (generate_content), *)
(* the record parser (parse_responses) and the "Generate Content" button   *)
(* handler.  A string is a sequence of one-character strings.              *)
(***************************************************************************)
EXTENDS Integers, Sequences, FiniteSets, TLC

VARIABLES
    pc,               \* position of the running code
    company_name,     \* text input "Enter the company name:"
    keywords,         \* keyword list built from the text area
    keyword_batches,  \* generate_content: the list of batches
    bi,               \* generate_content: index of the batch of the outer loop
    ki,               \* generate_content: index of the keyword of the inner loop
    all_posts,        \* generate_content: accumulated responses
    calls,            \* history: call/return events of openai_gpt_request
    outcomes,         \* history: what each completion call produced
    responses,        \* parse_responses: its argument
    li,               \* parse_responses: index of the line of the loop
    all_dfs,          \* parse_responses: accumulated one-row frames
    kept,             \* history: index of the source line of each row
    warnings,         \* st.warning calls: indexes of the skipped lines
    df,               \* the frame returned by parse_responses
    errors,           \* st.error calls, in order
    shown,            \* TRUE once st.dataframe and st.download_button ran
    fields,           \* the fields a raw response line was joined from
    text,             \* clean_text: its argument
    cleaned,          \* clean_text(text)
    cleaned2          \* clean_text(cleaned)

vars == <<pc, company_name, keywords, keyword_batches, bi, ki, all_posts, calls,
          outcomes, responses, li, all_dfs, kept, warnings, df, errors, shown,
          fields, text, cleaned, cleaned2>>

(***************************************************************************)
(* Bounds of the model.                                                    *)
(***************************************************************************)
MaxTextLen == 5
MaxKeywords == 3
MaxCompletionLines == 3
MaxLines == 2
MaxFragments == 8
MaxFieldLen == 2

(***************************************************************************)
(* Characters.  LDQ and RDQ stand for the curly double quotes.             *)
(***************************************************************************)
WhitespaceChars == {" ", "\n"}
QuoteChars == {"\"", "LDQ", "RDQ", "-"}
Delimiter == <<"|", "|", "|">>

IsSpace(c) == c \in WhitespaceChars

Min(a, b) == IF a < b THEN a ELSE b

RECURSIVE lstrip(_)
lstrip(s) == IF s # <<>> /\ IsSpace(Head(s)) THEN lstrip(Tail(s)) ELSE s

RECURSIVE rstrip(_)
rstrip(s) ==
    IF s # <<>> /\ IsSpace(s[Len(s)]) THEN rstrip(SubSeq(s, 1, Len(s) - 1)) ELSE s

strip(s) == rstrip(lstrip(s))

(* re.sub(r'["LDQ RDQ -]', '', text) *)
sub_quotes(s) == SelectSeq(s, LAMBDA c : c \notin QuoteChars)

(* index of the first "]" at or after i, 0 when there is none *)
RECURSIVE find_close(_, _)
find_close(s, i) ==
    IF i > Len(s) THEN 0 ELSE IF s[i] = "]" THEN i ELSE find_close(s, i + 1)

(* index of the "]" ending a match of \[[^\]]+\] that starts at i, 0 for no
   match: "[", then every following character up to the first "]", at least
   one of them *)
citation_end(s, i) ==
    LET j == find_close(s, i + 1)
    IN  IF s[i] = "[" /\ j >= i + 2 THEN j ELSE 0

(* re.sub(r'\[[^\]]+\]', '', text): leftmost non-overlapping matches *)
RECURSIVE sub_citations_from(_, _)
sub_citations_from(s, i) ==
    IF i > Len(s) THEN <<>>
    ELSE IF citation_end(s, i) # 0 THEN sub_citations_from(s, citation_end(s, i) + 1)
    ELSE <<s[i]>> \o sub_citations_from(s, i + 1)

sub_citations(s) == sub_citations_from(s, 1)

(* a mutant of clean_text: the text is stripped before the removals *)
clean_text_strip_first(s) == sub_citations(sub_quotes(strip(s)))

clean_text(s) == strip(sub_citations(sub_quotes(s)))

(***************************************************************************)
(* Specification of clean_text alone: every text over TextChars of length  *)
(* at most MaxTextLen is cleaned, and the result is cleaned again.         *)
(***************************************************************************)
TextChars == {"a", " ", "-", "\"", "[", "]"}

RECURSIVE StringsOver(_, _)
StringsOver(chars, n) ==
    IF n = 0 THEN {<<>>}
    ELSE LET shorter == StringsOver(chars, n - 1)
         IN  shorter \cup {Append(s, c) : s \in shorter, c \in chars}

(***************************************************************************)
(* Groups of variables, and their values while the code that owns them is  *)
(* not running.                                                            *)
(***************************************************************************)
uiVars == <<company_name, keywords, errors, shown>>
genVars == <<keyword_batches, bi, ki, all_posts, calls, outcomes>>
parseVars == <<responses, li, all_dfs, kept, warnings, df>>
cleanVars == <<text, cleaned, cleaned2>>

NoErrors == errors = <<>> /\ shown = FALSE
GenIdle ==
    /\ keyword_batches = <<>>
    /\ bi = 0
    /\ ki = 0
    /\ all_posts = <<>>
    /\ calls = <<>>
    /\ outcomes = <<>>
ParseIdle ==
    /\ li = 0
    /\ all_dfs = <<>>
    /\ kept = <<>>
    /\ warnings = <<>>
    /\ df = <<>>
CleanIdle == text = <<>> /\ cleaned = <<>> /\ cleaned2 = <<>>

InitClean ==
    /\ pc = "clean"
    /\ text \in StringsOver(TextChars, MaxTextLen)
    /\ cleaned = <<>>
    /\ cleaned2 = <<>>
    /\ company_name = ""
    /\ keywords = <<>>
    /\ NoErrors
    /\ GenIdle
    /\ responses = <<>>
    /\ ParseIdle
    /\ fields = <<>>

Clean ==
    /\ pc = "clean"
    /\ cleaned' = clean_text(text)
    /\ pc' = "cleaned"
    /\ UNCHANGED <<uiVars, genVars, parseVars, fields, text, cleaned2>>

CleanAgain ==
    /\ pc = "cleaned"
    /\ cleaned2' = clean_text(cleaned)
    /\ pc' = "cleaned_twice"
    /\ UNCHANGED <<uiVars, genVars, parseVars, fields, text, cleaned>>

NextClean == Clean \/ CleanAgain

SpecClean == InitClean /\ [][NextClean]_vars

(***************************************************************************)
(* parse_responses.                                                        *)
(***************************************************************************)
Columns ==
    <<"Title", "Post Body", "Comment 1", "Comment 2", "Comment 3", "Comment 4",
      "Comment 5">>
ColumnSet == {Columns[k] : k \in 1..Len(Columns)}

RECURSIVE skip_space(_, _)
skip_space(s, i) ==
    IF i <= Len(s) /\ IsSpace(s[i]) THEN skip_space(s, i + 1) ELSE i

(* index following a match of \s*\|\|\|\s* that starts at i, 0 for no match *)
match_delim(s, i) ==
    LET a == skip_space(s, i)
    IN  IF a + 2 <= Len(s) /\ SubSeq(s, a, a + 2) = Delimiter
        THEN skip_space(s, a + 3)
        ELSE 0

(* re.split(r'\s*\|\|\|\s*', line): the pieces between the leftmost
   non-overlapping matches, empty pieces included *)
RECURSIVE re_split_from(_, _, _)
re_split_from(s, start, i) ==
    IF i > Len(s) THEN <<SubSeq(s, start, Len(s))>>
    ELSE IF match_delim(s, i) # 0
         THEN <<SubSeq(s, start, i - 1)>>
                  \o re_split_from(s, match_delim(s, i), match_delim(s, i))
         ELSE re_split_from(s, start, i + 1)

re_split(s) == re_split_from(s, 1, 1)

(* parts = [p for p in re.split(...) if p] *)
parts_of(line) == SelectSeq(re_split(line), LAMBDA p : p # <<>>)

(* a mutant of has_enough_parts: a line needs a first comment too *)
has_three_parts(parts) == Len(parts) >= 3

has_enough_parts(parts) == Len(parts) >= 2

(* a mutant of make_record: a column exists only when its fragment does *)
make_record_partial(parts) ==
    [c \in {Columns[k] : k \in 1..Min(Len(parts), Len(Columns))} |->
        clean_text(parts[CHOOSE k \in 1..Len(Columns) : Columns[k] = c])]

(* a mutant of make_record: the Post Body is stored as split, not cleaned *)
make_record_raw_body(parts) ==
    [c \in ColumnSet |->
        LET k == CHOOSE n \in 1..Len(Columns) : Columns[n] = c
        IN  IF Len(parts) < k THEN <<>>
            ELSE IF k = 2 THEN parts[k] ELSE clean_text(parts[k])]

(* the data dictionary of one row; parts has at least two elements *)
make_record(parts) ==
    ("Title" :> clean_text(parts[1]))
    @@ ("Post Body" :> clean_text(parts[2]))
    @@ ("Comment 1" :> IF Len(parts) > 2 THEN clean_text(parts[3]) ELSE <<>>)
    @@ ("Comment 2" :> IF Len(parts) > 3 THEN clean_text(parts[4]) ELSE <<>>)
    @@ ("Comment 3" :> IF Len(parts) > 4 THEN clean_text(parts[5]) ELSE <<>>)
    @@ ("Comment 4" :> IF Len(parts) > 5 THEN clean_text(parts[6]) ELSE <<>>)
    @@ ("Comment 5" :> IF Len(parts) > 6 THEN clean_text(parts[7]) ELSE <<>>)

(* one iteration of "for line in responses" *)
ParseLine ==
    /\ pc = "parse_loop"
    /\ li <= Len(responses)
    /\ LET parts == parts_of(responses[li])
       IN  IF has_enough_parts(parts)
           THEN /\ all_dfs' = Append(all_dfs, make_record(parts))
                /\ kept' = Append(kept, li)
                /\ UNCHANGED warnings
           ELSE /\ warnings' = Append(warnings, li)
                /\ UNCHANGED <<all_dfs, kept>>
    /\ li' = li + 1
    /\ UNCHANGED <<pc, uiVars, genVars, responses, df, fields, cleanVars>>

(* the loop is over: an empty frame, or the rows concatenated in order *)
ParseReturn ==
    /\ pc = "parse_loop"
    /\ li > Len(responses)
    /\ df' = all_dfs
    /\ pc' = "parsed"
    /\ UNCHANGED <<uiVars, genVars, responses, li, all_dfs, kept, warnings,
                   fields, cleanVars>>

NextParse == ParseLine \/ ParseReturn

(***************************************************************************)
(* Specification of parse_responses alone, on at most MaxLines lines.  A   *)
(* line joins up to MaxFragments fields with the delimiter: bare fields,   *)
(* fields padded with whitespace and a quote character, or with a blank    *)
(* Post Body and a first comment that is only a citation.                  *)
(***************************************************************************)
FieldChar(i) == IF i <= Len(Columns) THEN <<"T", "B", "1", "2", "3", "4", "5">>[i] ELSE "x"

RECURSIVE JoinFields(_)
JoinFields(fs) ==
    IF fs = <<>> THEN <<>>
    ELSE IF Len(fs) = 1 THEN fs[1]
    ELSE fs[1] \o Delimiter \o JoinFields(Tail(fs))

LineStyles == {"bare", "padded", "gap"}

StyledField(i, style) ==
    IF style = "padded" THEN <<" ", "-", FieldChar(i), " ">>
    ELSE IF style = "gap" /\ i = 2 THEN <<" ">>
    ELSE IF style = "gap" /\ i = 3 THEN <<"[", "c", "]">>
    ELSE <<FieldChar(i)>>

LineSet ==
    {JoinFields([i \in 1..n |-> StyledField(i, style)]) :
        n \in 0..MaxFragments, style \in LineStyles}

RECURSIVE SeqsUpTo(_, _)
SeqsUpTo(S, n) ==
    IF n = 0 THEN {<<>>}
    ELSE LET shorter == SeqsUpTo(S, n - 1)
         IN  shorter \cup {Append(s, x) : s \in shorter, x \in S}

InitParse ==
    /\ pc = "parse_loop"
    /\ responses \in SeqsUpTo(LineSet, MaxLines)
    /\ li = 1
    /\ all_dfs = <<>>
    /\ kept = <<>>
    /\ warnings = <<>>
    /\ df = <<>>
    /\ company_name = ""
    /\ keywords = <<>>
    /\ NoErrors
    /\ GenIdle
    /\ fields = <<>>
    /\ CleanIdle

SpecParse == InitParse /\ [][NextParse]_vars

(***************************************************************************)
(* Specification of parse_responses on one line joined from seven fields:  *)
(* the column letters, with the fields at two positions replaced by any    *)
(* text over FieldChars of length at most MaxFieldLen.                     *)
(***************************************************************************)
FieldChars == {"a", " ", "-"}

SevenFields ==
    LET base == [i \in 1..Len(Columns) |-> <<FieldChar(i)>>]
        any == StringsOver(FieldChars, MaxFieldLen)
    IN  {[[base EXCEPT ![i] = f] EXCEPT ![j] = g] :
            i \in 1..Len(Columns), j \in 1..Len(Columns), f \in any, g \in any}

InitRound ==
    /\ pc = "parse_loop"
    /\ fields \in SevenFields
    /\ responses = <<JoinFields(fields)>>
    /\ li = 1
    /\ all_dfs = <<>>
    /\ kept = <<>>
    /\ warnings = <<>>
    /\ df = <<>>
    /\ company_name = ""
    /\ keywords = <<>>
    /\ NoErrors
    /\ GenIdle
    /\ CleanIdle

SpecRound == InitRound /\ [][NextParse]_vars

(***************************************************************************)
(* openai_gpt_request, generate_content and the "Generate Content" button. *)
(***************************************************************************)
BatchSize == 1

(* s[a:b] for 0 <= a <= b *)
py_slice(s, a, b) == SubSeq(s, a + 1, Min(b, Len(s)))

(* list(range(i, n, step)) *)
RECURSIVE py_range(_, _, _)
py_range(i, n, step) == IF i >= n THEN <<>> ELSE <<i>> \o py_range(i + step, n, step)

(* a mutant of batch_starts: the range stops one short of the list *)
batch_starts_short(n) == py_range(0, n - 1, BatchSize)

batch_starts(n) == py_range(0, n, BatchSize)

(* [keywords[i:i + 1] for i in range(0, len(keywords), 1)] *)
make_batches(kws) ==
    LET starts == batch_starts(Len(kws))
    IN  [k \in 1..Len(starts) |-> py_slice(kws, starts[k], starts[k] + BatchSize)]

(* the position of the two nested for loops after the keyword at <<b, k>> *)
next_pos(batches, b, k) == IF k < Len(batches[b]) THEN <<b, k + 1>> ELSE <<b + 1, 1>>

(* what the model can answer: up to MaxCompletionLines lines of seven fields,
   the empty text among them, or a text without the delimiter *)
WellFormedLine == JoinFields([i \in 1..Len(Columns) |-> <<FieldChar(i)>>])

RECURSIVE CompletionOfLines(_)
CompletionOfLines(k) ==
    IF k = 0 THEN <<>>
    ELSE IF k = 1 THEN WellFormedLine
    ELSE WellFormedLine \o <<"\n">> \o CompletionOfLines(k - 1)

Completions ==
    {CompletionOfLines(k) : k \in 0..MaxCompletionLines} \cup {<<"s", "o", "r", "r", "y">>}

(* how a request ends inside the try block: the content of the first choice,
   a content of None, or an exception *)
RequestResults ==
    [kind : {"text"}, text : Completions]
        \cup {[kind |-> "none", text |-> <<>>], [kind |-> "error", text |-> <<>>]}

(* "if response_text:" *)
is_truthy(r) == r.kind = "text" /\ r.text # <<>>

KeywordSet == {"food", "pay"}

Init ==
    /\ pc = "idle"
    /\ company_name \in {"", "IBM India"}
    /\ keywords \in SeqsUpTo(KeywordSet, MaxKeywords)
    /\ NoErrors
    /\ GenIdle
    /\ responses = <<>>
    /\ ParseIdle
    /\ fields = <<>>
    /\ CleanIdle

(* the button is pressed; generate_content builds its batches *)
ClickGenerate ==
    /\ pc = "idle"
    /\ IF company_name = "" \/ keywords = <<>>
       THEN /\ errors' = Append(errors, "Please enter company name and keywords.")
            /\ pc' = "done"
            /\ UNCHANGED genVars
       ELSE /\ all_posts' = <<>>
            /\ keyword_batches' = make_batches(keywords)
            /\ bi' = 1
            /\ ki' = 1
            /\ pc' = "gen_loop"
            /\ UNCHANGED <<errors, calls, outcomes>>
    /\ UNCHANGED <<company_name, keywords, shown, parseVars, fields, cleanVars>>

(* the loops reach a keyword: the prompt is built, openai_gpt_request called *)
CallCompletion ==
    /\ pc = "gen_loop"
    /\ bi <= Len(keyword_batches)
    /\ calls' = Append(calls, [ev |-> "call", batch |-> bi,
                               keyword |-> keyword_batches[bi][ki],
                               company |-> company_name])
    /\ pc' = "gpt_client"
    /\ UNCHANGED <<uiVars, keyword_batches, bi, ki, all_posts, outcomes, parseVars,
                   fields, cleanVars>>

(* client = OpenAI(api_key=api_key), before the try block: the client is
   built, or the constructor raises and the exception leaves
   openai_gpt_request, generate_content and the handler *)
CreateClient ==
    /\ pc = "gpt_client"
    /\ \/ /\ pc' = "gpt_request"
          /\ UNCHANGED <<calls, outcomes>>
       \/ /\ pc' = "crashed"
          /\ calls' = Append(calls, [ev |-> "raise", batch |-> bi,
                                     keyword |-> keyword_batches[bi][ki],
                                     company |-> company_name])
          /\ outcomes' = Append(outcomes, [kind |-> "raise", text |-> <<>>])
    /\ UNCHANGED <<uiVars, keyword_batches, bi, ki, all_posts, parseVars, fields,
                   cleanVars>>

(* the try block: the request returns the first choice's content, or an
   exception is caught, reported and None returned; generate_content appends
   a truthy response_text and goes on to the next keyword *)
ChatCompletion ==
    /\ pc = "gpt_request"
    /\ \E r \in RequestResults :
          /\ outcomes' = Append(outcomes, r)
          /\ errors' = IF r.kind = "error"
                       THEN Append(errors, "Error from OpenAI API")
                       ELSE errors
          /\ all_posts' = IF is_truthy(r) THEN Append(all_posts, r.text) ELSE all_posts
    /\ calls' = Append(calls, [ev |-> "return", batch |-> bi,
                               keyword |-> keyword_batches[bi][ki],
                               company |-> company_name])
    /\ bi' = next_pos(keyword_batches, bi, ki)[1]
    /\ ki' = next_pos(keyword_batches, bi, ki)[2]
    /\ pc' = "gen_loop"
    /\ UNCHANGED <<company_name, keywords, shown, keyword_batches, parseVars, fields,
                   cleanVars>>

(* generate_content returns all_posts; the handler parses a non-empty list *)
GenerateReturn ==
    /\ pc = "gen_loop"
    /\ bi > Len(keyword_batches)
    /\ IF all_posts # <<>>
       THEN /\ responses' = all_posts
            /\ li' = 1
            /\ all_dfs' = <<>>
            /\ pc' = "parse_loop"
            /\ UNCHANGED errors
       ELSE /\ errors' = Append(errors, "No content generated. Check API Key/prompt.")
            /\ pc' = "done"
            /\ UNCHANGED <<responses, li, all_dfs>>
    /\ UNCHANGED <<company_name, keywords, shown, genVars, kept, warnings, df, fields,
                   cleanVars>>

(* the handler after parse_responses: the table and the download button, or
   the error of an empty frame *)
ShowResult ==
    /\ pc = "parsed"
    /\ IF df # <<>>
       THEN shown' = TRUE /\ UNCHANGED errors
       ELSE /\ errors' = Append(errors, "No content generated successfully.")
            /\ UNCHANGED shown
    /\ pc' = "done"
    /\ UNCHANGED <<company_name, keywords, genVars, parseVars, fields, cleanVars>>

Next ==
    \/ ClickGenerate
    \/ CallCompletion
    \/ CreateClient
    \/ ChatCompletion
    \/ GenerateReturn
    \/ ParseLine
    \/ ParseReturn
    \/ ShowResult

Spec == Init /\ [][Next]_vars

(***************************************************************************)
(* Claims about parse_responses.                                           *)
(***************************************************************************)
IsBlank(s) == strip(s) = <<>>
FragmentCount(line) == Len(parts_of(line))
IsDiscarded(line) == FragmentCount(line) < 2
RecordsOf(lines) == [k \in 1..Len(lines) |-> make_record(parts_of(lines[k]))]
CommentColumn(c) == Columns[c + 2]

(* C6: every row has exactly the seven columns, whatever the lines: each line
   read so far gave one complete row or a warning and no row, and a row of a
   line with n fragments, 2 <= n < 7, has the empty string in every comment
   column that has no fragment. *)
C6_CompleteRecords ==
    /\ pc = "parse_loop" => Len(all_dfs) + Len(warnings) = li - 1
    /\ \A k \in 1..Len(all_dfs) :
          /\ DOMAIN all_dfs[k] = ColumnSet
          /\ LET n == FragmentCount(responses[kept[k]])
             IN  /\ n >= 2
                 /\ \A c \in 1..5 : n < c + 2 => all_dfs[k][CommentColumn(c)] = <<>>
    /\ pc = "parsed" => df = all_dfs

(* the two-field line T|||B gave a row whose five comments are empty *)
C6_Witness ==
    /\ pc = "parsed"
    /\ responses = << <<"T">> \o Delimiter \o <<"B">> >>
    /\ Len(df) = 1
    /\ df[1]["Title"] = <<"T">>
    /\ \A c \in 1..5 : df[1][CommentColumn(c)] = <<>>

(* C7 as stated: a line joined from seven fields free of "|", with a Title and
   a Post Body that are not blank, parses to one row whose k-th column is the
   k-th field cleaned. *)
C7_RoundTripAnyFields ==
    pc = "parsed" /\ ~IsBlank(fields[1]) /\ ~IsBlank(fields[2]) =>
        /\ Len(df) = 1
        /\ \A k \in 1..Len(Columns) : df[1][Columns[k]] = clean_text(fields[k])

(* the blank fields of the line, if any, are its last comments *)
BlankFieldsTrail ==
    /\ ~IsBlank(fields[1])
    /\ ~IsBlank(fields[2])
    /\ \A k \in 1..(Len(fields) - 1) : IsBlank(fields[k]) => IsBlank(fields[k + 1])

(* C7 amended: a line joined from seven fields free of "|", of which Title and
   Post Body are not blank and no blank field comes before a non-blank one,
   parses to one row whose k-th column is the k-th field cleaned. *)
C7_RoundTrip ==
    pc = "parsed" /\ BlankFieldsTrail =>
        /\ Len(df) = 1
        /\ \A k \in 1..Len(Columns) : df[1][Columns[k]] = clean_text(fields[k])

(* a line whose Post Body carries a hyphen and whose third comment is padded *)
C7_Witness ==
    /\ pc = "parsed"
    /\ BlankFieldsTrail
    /\ fields[2] = <<"-", "a">>
    /\ fields[5] = <<"a", " ">>
    /\ Len(df) = 1
    /\ df[1]["Post Body"] = <<"a">>
    /\ df[1]["Comment 3"] = <<"a">>
    /\ df[1]["Comment 5"] = <<"5">>

(* C8: lines are parsed one by one in order: the rows are those of the lines
   with at least two fragments, in input order, exactly as if the other lines
   were absent; every other line gives a warning and no row; when every line
   is discarded the result is the empty frame and no error is reported. *)
C8_LinesIndependent ==
    LET seen == SubSeq(responses, 1, li - 1)
        good == SelectSeq(seen, LAMBDA l : ~IsDiscarded(l))
    IN  pc \in {"parse_loop", "parsed"} =>
            /\ all_dfs = RecordsOf(good)
            /\ warnings = SelectSeq([k \in 1..(li - 1) |-> k],
                                    LAMBDA k : IsDiscarded(responses[k]))
            /\ errors = <<>>
            /\ pc = "parsed" =>
                  /\ li = Len(responses) + 1
                  /\ df = RecordsOf(good)
                  /\ (\A k \in 1..Len(responses) : IsDiscarded(responses[k]))
                        => df = <<>>

(* a discarded line before a kept one: one row, that of the second line *)
C8_Witness ==
    /\ pc = "parsed"
    /\ Len(responses) = 2
    /\ IsDiscarded(responses[1])
    /\ ~IsDiscarded(responses[2])
    /\ warnings = <<1>>
    /\ Len(df) = 1
    /\ df = RecordsOf(<<responses[2]>>)

(***************************************************************************)
(* Claims about generate_content, openai_gpt_request and the handler.      *)
(***************************************************************************)
RunStarted == pc # "idle" /\ company_name # "" /\ keywords # <<>>
HasReturned == RunStarted /\ pc \in {"parse_loop", "parsed", "done"}

RECURSIVE Flatten(_)
Flatten(ss) == IF ss = <<>> THEN <<>> ELSE Head(ss) \o Flatten(Tail(ss))

(* what the completions so far add to the output: each non-empty text, whole *)
RECURSIVE Contributions(_)
Contributions(rs) ==
    IF rs = <<>> THEN <<>>
    ELSE (IF Head(rs).kind = "text" /\ Head(rs).text # <<>>
          THEN <<Head(rs).text>> ELSE <<>>) \o Contributions(Tail(rs))

(* C1: whatever the completions' outcomes, a failed completion adds nothing
   and the remaining batches are still processed: no failure aborts the run,
   and the sequence returned is the successful batches' contributions in
   batch order (empty when every batch failed). *)
C1_FailedBatchSkipped ==
    /\ \A i \in 1..Len(outcomes) :
          outcomes[i].kind # "text" =>
              pc \in {"gen_loop", "gpt_client", "gpt_request", "parse_loop",
                      "parsed", "done"}
    /\ pc = "gen_loop" => all_posts = Contributions(outcomes)
    /\ HasReturned =>
          /\ Len(outcomes) = Len(keywords)
          /\ all_posts = Contributions(outcomes)

(* C2: openai_gpt_request never raises to its caller: every call ends with a
   return, whichever step of it failed. *)
C2_NeverRaises ==
    /\ pc # "crashed"
    /\ \A i \in 1..Len(calls) : calls[i].ev \in {"call", "return"}

(* the non-empty trimmed lines of a text *)
RECURSIVE SplitLines(_, _)
SplitLines(s, cur) ==
    IF s = <<>> THEN <<cur>>
    ELSE IF Head(s) = "\n" THEN <<cur>> \o SplitLines(Tail(s), <<>>)
    ELSE SplitLines(Tail(s), Append(cur, Head(s)))

TrimmedLines(s) ==
    SelectSeq([k \in 1..Len(SplitLines(s, <<>>)) |-> strip(SplitLines(s, <<>>)[k])],
              LAMBDA l : l # <<>>)

RECURSIVE LinesOf(_)
LinesOf(rs) ==
    IF rs = <<>> THEN <<>>
    ELSE (IF Head(rs).kind = "text" THEN TrimmedLines(Head(rs).text) ELSE <<>>)
             \o LinesOf(Tail(rs))

(* C3: each successful completion is split into its non-empty trimmed lines,
   each line one entry of the output, so that a completion of k well-formed
   lines gives k entries and, once parsed, k rows. *)
C3_OneEntryPerLine ==
    /\ HasReturned => all_posts = LinesOf(outcomes)
    /\ HasReturned /\ pc = "done" /\ shown =>
          Len(df) = Len(SelectSeq(LinesOf(outcomes), LAMBDA l : ~IsDiscarded(l)))

(* the calls made for batch b *)
CallsFor(b) == {i \in 1..Len(calls) : calls[i].ev = "call" /\ calls[i].batch = b}

(* the run is over: the handler finished, or an exception ended it *)
RunEnded == RunStarted /\ pc \in {"done", "crashed"}

(* the order of the calls: the n-th call is for the n-th keyword, it is made
   only after call n - 1 has ended, and no batch is called twice *)
CallsInOrder ==
    /\ \A i \in 1..Len(calls) :
          LET n == (i + 1) \div 2
          IN  /\ n <= Len(keywords)
              /\ calls[i].keyword = keywords[n]
              /\ calls[i].batch = ((n - 1) \div BatchSize) + 1
              /\ i % 2 = 1 => calls[i].ev = "call"
              /\ i % 2 = 0 => calls[i].ev \in {"return", "raise"}
              /\ calls[i].ev = "raise" => i = Len(calls)
    /\ pc \in {"gpt_client", "gpt_request"} <=> Len(calls) % 2 = 1
    /\ \A b \in 1..Len(keyword_batches) : Cardinality(CallsFor(b)) <= Len(keyword_batches[b])

(* C4: the completion calls are made one at a time and in keyword order, a
   call for a later batch starting only after the call for the previous batch
   has returned; exactly one call is made per batch, and a failed batch is
   never retried. *)
C4_SequentialCalls ==
    /\ CallsInOrder
    /\ RunEnded => \A b \in 1..Len(keyword_batches) : Cardinality(CallsFor(b)) = 1

(* C5: the batches number ceil(L / B), each holds at most B keywords, and
   their concatenation in batch order is the keyword sequence. *)
C5_BatchesPartition ==
    RunStarted =>
        /\ Len(keyword_batches) = (Len(keywords) + BatchSize - 1) \div BatchSize
        /\ \A b \in 1..Len(keyword_batches) :
              Len(keyword_batches[b]) \in 1..BatchSize
        /\ Flatten(keyword_batches) = keywords

(* three keywords, one of them twice, batched *)
C5_Witness ==
    /\ pc = "gen_loop"
    /\ keywords = <<"food", "pay", "food">>
    /\ keyword_batches = << <<"food">>, <<"pay">>, <<"food">> >>

TerminalMessages ==
    {"No content generated. Check API Key/prompt.",
     "No content generated successfully."}
TerminalCount == Cardinality({i \in 1..Len(errors) : errors[i] \in TerminalMessages})

(* no completion gave a text with a line the parser keeps *)
NothingUsable ==
    \A i \in 1..Len(outcomes) :
        outcomes[i].kind = "text" => IsDiscarded(outcomes[i].text)

(* C10: a run with a company name and keywords whose result is empty (every
   completion failed, or every returned line was discarded) ends with exactly
   one "no content" error and neither table nor download; the table and the
   download are offered only when a row was parsed. *)
C10_EmptyResultMessage ==
    /\ TerminalCount <= 1
    /\ shown => Len(df) >= 1 /\ TerminalCount = 0
    /\ RunEnded /\ NothingUsable => TerminalCount = 1 /\ ~shown

(***************************************************************************)
(* Claims about clean_text.                                                *)
(***************************************************************************)
(* C9: clean_text is idempotent: cleaning a cleaned text returns it unchanged,
   and one pass leaves no quote or hyphen, no bracketed citation and no
   leading or trailing whitespace. *)
C9_Idempotent ==
    /\ pc = "cleaned_twice" => cleaned2 = cleaned
    /\ pc \in {"cleaned", "cleaned_twice"} =>
          /\ \A i \in 1..Len(cleaned) :
                /\ cleaned[i] \notin QuoteChars
                /\ ~(/\ cleaned[i] = "["
                     /\ \E j \in (i + 2)..Len(cleaned) :
                           /\ cleaned[j] = "]"
                           /\ \A k \in (i + 1)..(j - 1) : cleaned[k] # "]")
          /\ cleaned # <<>> =>
                ~IsSpace(cleaned[1]) /\ ~IsSpace(cleaned[Len(cleaned)])

(* a text whose removals leave brackets and inner whitespace behind *)
C9_Witness ==
    /\ pc = "cleaned_twice"
    /\ text = <<"[", "-", "]", " ">>
    /\ cleaned = <<"[", "]">>

====
